---- MODULE Spec2Model ----
(* Browser-session tool layer of mcp-web-navigator: the lifespan that owns    *)
(* the Playwright driver, the browser and the page (mcp_server.py), the six   *)
(* tool handlers with their suspension points, the two in-page scripts        *)
(* (click_by_text, get_interactive_elements) and clean_html_content           *)
(* (helper.py).  Strings are sequences of one-character strings.              *)
EXTENDS Integers, Sequences, FiniteSets, TLC

VARIABLES
    phase,          \* position of browser_lifespan
    browser_state,  \* the module-level dict: playwright, browser, page
    pwRunning,      \* the Playwright driver (launch resource) is running
    browserOpen,    \* the browser process is open
    closeCalled,    \* browser.close() has been called
    stopCalled,     \* p.stop() has been called
    calls,          \* tool handlers: slot -> handler state
    dom,            \* elements of the active page, in document order
    url,            \* address of the active page
    clicked,        \* indices of dom that received a click
    filled,         \* index of dom -> text typed into it
    raw_html,       \* clean_html_content: input markup
    cleaned,        \* clean_html_content(raw_html)
    cleaned2,       \* clean_html_content(cleaned)
    spc,            \* position of the simplifier run
    tool_result     \* what the client wrapper last handed to the agent loop

vars == <<phase, browser_state, pwRunning, browserOpen, closeCalled, stopCalled,
          calls, dom, url, clicked, filled, raw_html, cleaned, cleaned2, spc,
          tool_result>>

lifeVars == <<phase, browser_state, pwRunning, browserOpen, closeCalled, stopCalled>>
pageVars == <<dom, url, clicked, filled>>
simpVars == <<raw_html, cleaned, cleaned2, spc>>

----------------------------------------------------------------------------
(* Bounds *)
MaxCalls == 2
MaxElems == 2
MaxMarkup == 4

----------------------------------------------------------------------------
(* JavaScript / Python string primitives over character sequences *)

Min(a, b) == IF a < b THEN a ELSE b

IsSpace(c) == c \in {" ", "\n"}

\* String.prototype.toLowerCase, one character
LowerChar(c) ==
    CASE c = "O" -> "o"
      [] c = "K" -> "k"
      [] c = "Z" -> "z"
      [] OTHER -> c

ToLowerCase(s) == [i \in 1..Len(s) |-> LowerChar(s[i])]

RECURSIVE TrimStart(_)
TrimStart(s) == IF s # <<>> /\ IsSpace(Head(s)) THEN TrimStart(Tail(s)) ELSE s

RECURSIVE TrimEnd(_)
TrimEnd(s) ==
    IF s # <<>> /\ IsSpace(s[Len(s)]) THEN TrimEnd(SubSeq(s, 1, Len(s) - 1)) ELSE s

\* String.prototype.trim and str.strip
Trim(s) == TrimEnd(TrimStart(s))

\* String.prototype.includes: scan every start position
RECURSIVE IncludesFrom(_, _, _)
IncludesFrom(s, t, i) ==
    IF i + Len(t) - 1 > Len(s) THEN FALSE
    ELSE IF SubSeq(s, i, i + Len(t) - 1) = t THEN TRUE
    ELSE IncludesFrom(s, t, i + 1)

Includes(s, t) == IncludesFrom(s, t, 1)

\* String.prototype.substring(0, n)
Substring0(s, n) == SubSeq(s, 1, Min(Len(s), n))

\* name.replace(/\s+/g, ' '): every run of white space becomes one space
RECURSIVE CollapseSpace(_)
CollapseSpace(s) ==
    IF s = <<>> THEN <<>>
    ELSE IF IsSpace(Head(s))
         THEN <<" ">> \o CollapseSpace(TrimStart(s))
         ELSE <<Head(s)>> \o CollapseSpace(Tail(s))

\* a || b on strings: the empty string is falsy
Or(a, b) == IF a # <<>> THEN a ELSE b

\* className.trim().split(/\s+/)[0]
RECURSIVE FirstToken(_)
FirstToken(s) ==
    IF s = <<>> \/ IsSpace(Head(s)) THEN <<>> ELSE <<Head(s)>> \o FirstToken(Tail(s))

\* substring(0, 100) of the reported text and of the derived name
TextMax == 100

----------------------------------------------------------------------------
(* The page: a sequence of elements in document order.  w and h are the      *)
(* bounding rectangle in half pixels (getBoundingClientRect returns          *)
(* fractions), so 1 CSS pixel is 2.  Absent attributes and properties are    *)
(* the empty string, which JavaScript treats as falsy like null/undefined.   *)

El(tag, type, role, onclick, w, h, vis, disp, inner, value, ph, aria, id, cls, href) ==
    [tag |-> tag, type |-> type, role |-> role, onclick |-> onclick,
     w |-> w, h |-> h, visibility |-> vis, display |-> disp,
     innerText |-> inner, value |-> value, placeholder |-> ph, ariaLabel |-> aria,
     id |-> id, className |-> cls, href |-> href]

Ok      == <<"O", "k">>
OkLower == <<"o", "k">>

BtnOk       == El("button", "", "", FALSE, 80, 40, "visible", "block", Ok, <<>>, <<>>, <<>>, "go", <<>>, <<>>)
LinkOkMore  == El("a", "", "", FALSE, 80, 40, "visible", "inline", <<"o", "k", " ", "z">>, <<>>, <<>>, <<>>, "", <<" ", "n", " ", "m">>, <<"h">>)
InputText   == El("input", "text", "", FALSE, 80, 40, "visible", "inline", <<>>, Ok, <<"z">>, <<>>, "box", <<>>, <<>>)
InputSubmit == El("input", "submit", "", FALSE, 80, 40, "visible", "inline", <<>>, <<" ", "O", "K", " ">>, <<>>, <<>>, "", <<>>, <<>>)
BtnNone     == El("button", "", "", FALSE, 80, 40, "visible", "none", Ok, <<>>, <<>>, <<>>, "", <<>>, <<>>)
SpanHidden  == El("span", "", "", TRUE, 80, 40, "hidden", "inline", Ok, <<>>, <<>>, <<>>, "", <<>>, <<>>)
RoleThin    == El("div", "", "button", FALSE, 1, 40, "visible", "block", <<>>, <<>>, <<>>, Ok, "", <<>>, <<>>)
BtnFlat     == El("button", "", "", FALSE, 80, 0, "visible", "block", Ok, <<>>, <<>>, <<>>, "", <<>>, <<>>)
DivPlain    == El("div", "", "", FALSE, 80, 40, "visible", "block", Ok, <<>>, <<>>, <<>>, "", <<>>, <<>>)
BtnBlank    == El("button", "", "", FALSE, 80, 40, "visible", "block", <<" ", "\n">>, <<>>, <<>>, <<>>, "", <<"n">>, <<>>)
SelectBare  == El("select", "", "", FALSE, 80, 40, "visible", "inline", <<>>, <<>>, <<>>, <<>>, "", <<>>, <<>>)

Catalogue == {BtnOk, LinkOkMore, InputText, InputSubmit, BtnNone, SpanHidden,
              RoleThin, BtnFlat, DivPlain, BtnBlank, SelectBare}

Pages(n) == UNION {[1..k -> Catalogue] : k \in 0..n}

----------------------------------------------------------------------------
(* click_by_text: the in-page script *)

\* 'button, a, input[type="submit"], input[type="button"], [role="button"], [onclick]'
LocatorQuery(el) ==
    \/ el.tag \in {"button", "a"}
    \/ el.tag = "input" /\ el.type \in {"submit", "button"}
    \/ el.role = "button"
    \/ el.onclick

LocatorVisible(el) ==
    /\ el.w > 0
    /\ el.h > 0
    /\ el.visibility # "hidden"
    /\ el.display # "none"

\* (el.innerText || el.value || el.getAttribute('aria-label') || '').trim()
ElementText(el) == Trim(Or(Or(el.innerText, el.value), el.ariaLabel))

TextMatches(el, text, exactMatch) ==
    IF exactMatch
    THEN ElementText(el) = text
    ELSE Includes(ToLowerCase(ElementText(el)), ToLowerCase(text))

\* the loop with the visibility filter left out
RECURSIVE FindTarget_AnyVisibility(_, _, _, _)
FindTarget_AnyVisibility(d, text, exactMatch, i) ==
    IF i > Len(d) THEN 0
    ELSE IF LocatorQuery(d[i]) /\ TextMatches(d[i], text, exactMatch)
         THEN i
         ELSE FindTarget_AnyVisibility(d, text, exactMatch, i + 1)

\* the loop without its break: the last match is the target
RECURSIVE FindTarget_Last(_, _, _, _)
FindTarget_Last(d, text, exactMatch, i) ==
    IF i > Len(d) THEN 0
    ELSE LET later == FindTarget_Last(d, text, exactMatch, i + 1) IN
         IF later # 0 THEN later
         ELSE IF LocatorQuery(d[i]) /\ LocatorVisible(d[i]) /\ TextMatches(d[i], text, exactMatch)
              THEN i
              ELSE 0

\* the for loop with break: index of the first visible candidate that
\* matches, 0 when the loop ends with targetElement null
RECURSIVE FindTarget(_, _, _, _)
FindTarget(d, text, exactMatch, i) ==
    IF i > Len(d) THEN 0
    ELSE IF LocatorQuery(d[i]) /\ LocatorVisible(d[i]) /\ TextMatches(d[i], text, exactMatch)
         THEN i
         ELSE FindTarget(d, text, exactMatch, i + 1)

NoElementInfo == [tag |-> "", text |-> <<>>, id |-> "", className |-> <<>>]

ElementInfo(el) ==
    [tag |-> el.tag,
     text |-> Substring0(Or(el.innerText, el.value), TextMax),
     id |-> el.id,
     className |-> el.className]

\* what page.evaluate returns, and the element it clicked (0: none)
ClickScript(d, text, exactMatch) ==
    LET t == FindTarget(d, text, exactMatch, 1) IN
    IF t = 0
    THEN [success |-> FALSE, head |-> "No element found with text", arg |-> text,
          element |-> NoElementInfo, target |-> 0]
    ELSE [success |-> TRUE, head |-> "Clicked", arg |-> ElementInfo(d[t]).text,
          element |-> ElementInfo(d[t]), target |-> t]

----------------------------------------------------------------------------
(* get_interactive_elements: the in-page script *)

\* 'button, a, input, select, textarea, [role="button"], [onclick]'
ScannerQuery(el) ==
    \/ el.tag \in {"button", "a", "input", "select", "textarea"}
    \/ el.role = "button"
    \/ el.onclick

\* the filter without its display test
ScannerVisible_NoDisplay(el) ==
    ~ (\/ el.w < 2
       \/ el.h < 2
       \/ el.visibility = "hidden")

\* rect.width < 1 || rect.height < 1 || hidden || none: skipped
ScannerVisible(el) ==
    ~ (\/ el.w < 2
       \/ el.h < 2
       \/ el.visibility = "hidden"
       \/ el.display = "none")

ScannerSelector(el) ==
    IF el.id # ""
    THEN [tag |-> el.tag, id |-> el.id, cls |-> <<>>]
    ELSE IF Trim(el.className) # <<>>
         THEN [tag |-> el.tag, id |-> "", cls |-> FirstToken(Trim(el.className))]
         ELSE [tag |-> el.tag, id |-> "", cls |-> <<>>]

ScannerName(el) ==
    Substring0(
        Trim(CollapseSpace(
            Or(Or(Or(el.innerText, el.placeholder), el.value), el.ariaLabel))),
        TextMax)

\* el.href of an anchor is the resolved address; getAttribute is the raw one
ScannerLink(el) ==
    IF el.href # <<>>
    THEN IF el.tag = "a" THEN <<"/">> \o el.href ELSE el.href
    ELSE <<>>

ScannerKeeps(el) ==
    /\ ScannerQuery(el)
    /\ ScannerVisible(el)
    /\ (ScannerName(el) # <<>> \/ el.tag \in {"input", "select", "textarea"})

Descriptor(el) ==
    [name |-> ScannerName(el), selector |-> ScannerSelector(el), link |-> ScannerLink(el)]

\* forEach over querySelectorAll, pushing in encounter order
RECURSIVE ScanScript(_)
ScanScript(d) ==
    IF d = <<>> THEN <<>>
    ELSE (IF ScannerKeeps(Head(d)) THEN <<Descriptor(Head(d))>> ELSE <<>>)
         \o ScanScript(Tail(d))

----------------------------------------------------------------------------
(* clean_html_content.  Markup is a sequence of symbols: a character, a      *)
(* start tag with its attributes as written, or an end tag.  BeautifulSoup   *)
(* with html.parser builds the tree; prettify() serialises it again.         *)

Chr(c) == [k |-> "chr", tag |-> "", attrs |-> <<>>, c |-> c]
Open(tag, attrs) == [k |-> "open", tag |-> tag, attrs |-> attrs, c |-> ""]
Close(tag) == [k |-> "close", tag |-> tag, attrs |-> <<>>, c |-> ""]
Attr(name, value) == [name |-> name, value |-> value]

Chars(s) == [i \in 1..Len(s) |-> Chr(s[i])]

\* html.parser: elements that never have content, and elements whose content
\* is raw text up to their own end tag
VoidTags == {"meta", "link", "br", "input"}
CDataTags == {"script", "style"}

\* elements inside which white space is kept as written
PreserveTags == {"pre", "textarea"}

\* soup(["script", "style", "svg", "meta", "link", "noscript"])
RemovedTags == {"script", "style", "svg", "meta", "link", "noscript"}

allowed_attrs == {"id", "class", "name", "href", "type", "placeholder", "aria-label", "role"}

Str(s) == [k |-> "str", tag |-> "", attrs |-> <<>>, kids |-> <<>>, s |-> s]
Tag(tag, attrs, kids) == [k |-> "tag", tag |-> tag, attrs |-> attrs, kids |-> kids, s |-> <<>>]

\* a multi-valued attribute (class) is held as its list of tokens and written
\* back joined by single spaces
RECURSIVE SplitSpace(_)
SplitSpace(s) ==
    LET t == TrimStart(s) IN
    IF t = <<>> THEN <<>>
    ELSE <<FirstToken(t)>> \o SplitSpace(SubSeq(t, Len(FirstToken(t)) + 1, Len(t)))

RECURSIVE JoinSpace(_)
JoinSpace(toks) ==
    IF toks = <<>> THEN <<>>
    ELSE IF Len(toks) = 1 THEN toks[1]
    ELSE toks[1] \o <<" ">> \o JoinSpace(Tail(toks))

ParsedValue(a) == IF a.name = "class" THEN JoinSpace(SplitSpace(a.value)) ELSE a.value

ParsedAttrs(attrs) == [i \in 1..Len(attrs) |-> Attr(attrs[i].name, ParsedValue(attrs[i]))]

InStack(tag, stack) == \E n \in 1..Len(stack) : stack[n] = tag

\* endData: outside pre and textarea a string of white space only becomes
\* one newline or one space
EndData(s, stack) ==
    IF (\A i \in 1..Len(s) : IsSpace(s[i])) /\ ~ \E tag \in PreserveTags : InStack(tag, stack)
    THEN (IF \E i \in 1..Len(s) : s[i] = "\n" THEN <<"\n">> ELSE <<" ">>)
    ELSE s

\* last index of the run of characters that starts at i
RECURSIVE RunEnd(_, _)
RunEnd(t, i) == IF i < Len(t) /\ t[i + 1].k = "chr" THEN RunEnd(t, i + 1) ELSE i

\* index of the end tag that closes the raw-text element opened before i
RECURSIVE CDataEnd(_, _, _)
CDataEnd(t, i, tag) ==
    IF i > Len(t) THEN i
    ELSE IF t[i].k = "close" /\ t[i].tag = tag THEN i
    ELSE CDataEnd(t, i + 1, tag)

RawText(t, i, j) == [n \in 1..(j - i + 1) |-> IF t[i + n - 1].k = "chr" THEN t[i + n - 1].c ELSE "<"]

\* feed(): children parsed from symbol i under the open elements in stack;
\* closing names the open element whose end tag stopped the run ("" at the
\* end of the input).  An end tag with no open element of its name is dropped
\* (_popToTag), and every tag ends the string before it.
RECURSIVE ParseFrom(_, _, _)
ParseFrom(t, i, stack) ==
    IF i > Len(t) THEN [kids |-> <<>>, next |-> i, closing |-> ""]
    ELSE IF t[i].k = "chr" THEN
        LET j == RunEnd(t, i)
            rest == ParseFrom(t, j + 1, stack)
        IN [rest EXCEPT !.kids = <<Str(EndData(RawText(t, i, j), stack))>> \o @]
    ELSE IF t[i].k = "close" THEN
        IF InStack(t[i].tag, stack)
        THEN [kids |-> <<>>, next |-> i + 1, closing |-> t[i].tag]
        ELSE ParseFrom(t, i + 1, stack)
    ELSE IF t[i].tag \in VoidTags THEN
        LET rest == ParseFrom(t, i + 1, stack)
        IN [rest EXCEPT !.kids = <<Tag(t[i].tag, ParsedAttrs(t[i].attrs), <<>>)>> \o @]
    ELSE IF t[i].tag \in CDataTags THEN
        LET j == CDataEnd(t, i + 1, t[i].tag)
            body == IF j > i + 1 THEN <<Str(RawText(t, i + 1, j - 1))>> ELSE <<>>
            rest == ParseFrom(t, j + 1, stack)
        IN [rest EXCEPT !.kids = <<Tag(t[i].tag, ParsedAttrs(t[i].attrs), body)>> \o @]
    ELSE
        LET inner == ParseFrom(t, i + 1, stack \o <<t[i].tag>>)
            node == Tag(t[i].tag, ParsedAttrs(t[i].attrs), inner.kids)
        IN IF inner.closing \in {"", t[i].tag}
           THEN LET rest == ParseFrom(t, inner.next, stack)
                IN [rest EXCEPT !.kids = <<node>> \o @]
           ELSE [kids |-> <<node>>, next |-> inner.next, closing |-> inner.closing]

\* BeautifulSoup(raw_html, "html.parser")
BeautifulSoup(t) == ParseFrom(t, 1, <<>>).kids

\* removal of the listed elements among the top-level nodes only
Decompose_TopLevel(kids) ==
    SelectSeq(kids, LAMBDA n : ~ (n.k = "tag" /\ n.tag \in RemovedTags))

\* for element in soup([...]): element.decompose()
RECURSIVE Decompose(_)
Decompose(kids) ==
    IF kids = <<>> THEN <<>>
    ELSE LET n == Head(kids) IN
         (IF n.k = "tag" /\ n.tag \in RemovedTags THEN <<>>
          ELSE IF n.k = "tag" THEN <<[n EXCEPT !.kids = Decompose(n.kids)]>>
          ELSE <<n>>)
         \o Decompose(Tail(kids))

RECURSIVE KeepAllowed(_)
KeepAllowed(attrs) ==
    IF attrs = <<>> THEN <<>>
    ELSE (IF Head(attrs).name \in allowed_attrs THEN <<Head(attrs)>> ELSE <<>>)
         \o KeepAllowed(Tail(attrs))

\* for tag in soup.find_all(True): del tag.attrs[attr] unless allowed
RECURSIVE PruneAttrs(_)
PruneAttrs(kids) ==
    IF kids = <<>> THEN <<>>
    ELSE LET n == Head(kids) IN
         (IF n.k = "tag"
          THEN <<[n EXCEPT !.attrs = KeepAllowed(n.attrs), !.kids = PruneAttrs(n.kids)]>>
          ELSE <<n>>)
         \o PruneAttrs(Tail(kids))

Indent(level) == [i \in 1..level |-> Chr(" ")]
NewLine == <<Chr("\n")>>

\* inside pre and textarea: every node as it is, no line breaks, no indent
RECURSIVE Literal(_)
Literal(kids) ==
    IF kids = <<>> THEN <<>>
    ELSE LET n == Head(kids) IN
         (IF n.k = "str" THEN Chars(n.s)
          ELSE IF n.tag \in VoidTags THEN <<Open(n.tag, n.attrs)>>
          ELSE <<Open(n.tag, n.attrs)>> \o Literal(n.kids) \o <<Close(n.tag)>>)
         \o Literal(Tail(kids))

\* serialisation that writes each string as it is, not stripped
RECURSIVE Prettify_NoStrip(_, _)
Prettify_NoStrip(kids, level) ==
    IF kids = <<>> THEN <<>>
    ELSE LET n == Head(kids) IN
         (IF n.k = "str"
          THEN (IF Trim(n.s) = <<>> THEN <<>>
                ELSE Indent(level) \o Chars(n.s) \o NewLine)
          ELSE IF n.tag \in VoidTags
          THEN Indent(level) \o <<Open(n.tag, n.attrs)>> \o NewLine
          ELSE IF n.tag \in PreserveTags
          THEN Indent(level) \o <<Open(n.tag, n.attrs)>> \o Literal(n.kids)
               \o <<Close(n.tag)>> \o NewLine
          ELSE Indent(level) \o <<Open(n.tag, n.attrs)>> \o NewLine
               \o Prettify_NoStrip(n.kids, level + 1)
               \o Indent(level) \o <<Close(n.tag)>> \o NewLine)
         \o Prettify_NoStrip(Tail(kids), level)

\* soup.prettify(): one line per tag and per stripped string, indented by
\* depth; strings of white space only are not written; a pre or textarea
\* element is written on one line with its content as it is
RECURSIVE Prettify(_, _)
Prettify(kids, level) ==
    IF kids = <<>> THEN <<>>
    ELSE LET n == Head(kids) IN
         (IF n.k = "str"
          THEN (IF Trim(n.s) = <<>> THEN <<>>
                ELSE Indent(level) \o Chars(Trim(n.s)) \o NewLine)
          ELSE IF n.tag \in VoidTags
          THEN Indent(level) \o <<Open(n.tag, n.attrs)>> \o NewLine
          ELSE IF n.tag \in PreserveTags
          THEN Indent(level) \o <<Open(n.tag, n.attrs)>> \o Literal(n.kids)
               \o <<Close(n.tag)>> \o NewLine
          ELSE Indent(level) \o <<Open(n.tag, n.attrs)>> \o NewLine
               \o Prettify(n.kids, level + 1)
               \o Indent(level) \o <<Close(n.tag)>> \o NewLine)
         \o Prettify(Tail(kids), level)

clean_html_content(html) == Prettify(PruneAttrs(Decompose(BeautifulSoup(html))), 0)

----------------------------------------------------------------------------
(* The session: browser_state and browser_lifespan *)

None == "None"
Handle == "handle"

Slots == 1..MaxCalls

\* what the spec calls the state of the session: ready from the moment
\* browser_state is filled until browser.close() is called
SessionState ==
    IF closeCalled THEN "closed"
    ELSE IF phase \in {"serving", "closing"} THEN "ready"
    ELSE "uninitialized"

\* p = await async_playwright().start()
LifespanStartPlaywright(ok) ==
    /\ phase = "not_started"
    /\ IF ok
       THEN phase' = "pw_started" /\ pwRunning' = TRUE
       ELSE phase' = "failed" /\ UNCHANGED pwRunning
    /\ UNCHANGED <<browser_state, browserOpen, closeCalled, stopCalled,
                   calls, pageVars, simpVars, tool_result>>

\* browser = await p.chromium.launch(headless=False)
LifespanLaunch(ok) ==
    /\ phase = "pw_started"
    /\ IF ok
       THEN phase' = "launched" /\ browserOpen' = TRUE
       ELSE phase' = "failed" /\ UNCHANGED browserOpen
    /\ UNCHANGED <<browser_state, pwRunning, closeCalled, stopCalled,
                   calls, pageVars, simpVars, tool_result>>

\* page = await browser.new_page(); browser_state[...] = ...; yield
LifespanNewPage(ok) ==
    /\ phase = "launched"
    /\ IF ok
       THEN /\ phase' = "serving"
            /\ browser_state' = [playwright |-> Handle, browser |-> Handle, page |-> Handle]
       ELSE phase' = "failed" /\ UNCHANGED browser_state
    /\ UNCHANGED <<pwRunning, browserOpen, closeCalled, stopCalled,
                   calls, pageVars, simpVars, tool_result>>

\* the server stops, raises or is interrupted: control re-enters at the yield
\* and the finally block begins
LifespanExit ==
    /\ phase = "serving"
    /\ phase' = "closing"
    /\ UNCHANGED <<browser_state, pwRunning, browserOpen, closeCalled, stopCalled,
                   calls, pageVars, simpVars, tool_result>>

\* await browser.close(); a raise leaves the finally block at once, and
\* whether the browser went down before the raise is up to the engine
LifespanCloseBrowser(ok, stillOpen) ==
    /\ phase = "closing"
    /\ closeCalled' = TRUE
    /\ IF ok
       THEN phase' = "stopping" /\ browserOpen' = FALSE
       ELSE phase' = "failed" /\ browserOpen' = stillOpen
    /\ UNCHANGED <<browser_state, pwRunning, stopCalled, calls, pageVars, simpVars, tool_result>>

\* await p.stop()
LifespanStopPlaywright(ok) ==
    /\ phase = "stopping"
    /\ stopCalled' = TRUE
    /\ IF ok
       THEN phase' = "done" /\ pwRunning' = FALSE
       ELSE phase' = "failed" /\ UNCHANGED pwRunning
    /\ UNCHANGED <<browser_state, browserOpen, closeCalled, calls, pageVars, simpVars, tool_result>>

----------------------------------------------------------------------------
(* The sites the browser can load *)

Blank == "about:blank"
Urls == {"u1", "u2"}

SiteDom(u) ==
    CASE u = "u1" -> <<BtnOk, InputText>>
      [] u = "u2" -> <<LinkOkMore>>
      [] OTHER -> <<>>

DivTag == Open("div", <<Attr("class", <<"a", " ", " ", "a">>), Attr("onclick", <<"a">>)>>)
ScriptTag == Open("script", <<Attr("type", <<"a">>)>>)
MetaTag == Open("meta", <<Attr("name", <<"a">>), Attr("content", <<"a">>)>>)
SvgTag == Open("svg", <<Attr("id", <<"a">>), Attr("style", <<"a">>)>>)
PreTag == Open("pre", <<>>)

\* page.content() of each site
SiteHtml(u) ==
    CASE u = "u1" -> <<MetaTag, DivTag, Chr("a"), ScriptTag, Chr("a"), Close("script"), Close("div")>>
      [] u = "u2" -> <<DivTag, SvgTag, Chr("a"), Close("div")>>
      [] OTHER -> <<>>

\* CSS selectors, parsed: the empty string is the selector with no part
Sel(tag, id) == [tag |-> tag, id |-> id, cls |-> <<>>]
EmptySel == Sel("", "")

SelMatches(sel, el) ==
    /\ sel.tag = "" \/ sel.tag = el.tag
    /\ sel.id = "" \/ sel.id = el.id

\* first element in document order that the selector matches, 0 if none
RECURSIVE Resolve(_, _, _)
Resolve(sel, d, i) ==
    IF i > Len(d) THEN 0
    ELSE IF SelMatches(sel, d[i]) THEN i
    ELSE Resolve(sel, d, i + 1)

Fillable(el) == el.tag \in {"input", "textarea"}

----------------------------------------------------------------------------
(* Tool handlers.  A handler runs from its entry to its first await in one   *)
(* step, is suspended while the page works, and resumes when the page        *)
(* answers or fails.                                                         *)

NoResult == [exc |-> "", head |-> "", arg |-> <<>>, value |-> <<>>]
Returns(head, arg, value) == [exc |-> "", head |-> head, arg |-> arg, value |-> value]
Raises(exc, head, arg) == [exc |-> exc, head |-> head, arg |-> arg, value |-> <<>>]

NotInitialized == Raises("RuntimeError", "Browser is not initialized.", <<>>)
EngineError == Raises("PlaywrightError", "", <<>>)

IdleCall ==
    [pc |-> "idle", tool |-> "", sel |-> EmptySel, text |-> <<>>, flag |-> FALSE,
     url |-> "", res |-> NoResult, ops |-> 0, session |-> ""]

Suspended == {"goto", "title", "content", "fill", "click", "evaluate"}

\* the handler starts: the record of a fresh invocation
Invoked(tool, sel, text, flag, u) ==
    [pc |-> "entry", tool |-> tool, sel |-> sel, text |-> text, flag |-> flag,
     url |-> u, res |-> NoResult, ops |-> 0, session |-> SessionState]

Raise(call, res) == [call EXCEPT !.pc = "done", !.res = res]
Return(call, res) == [call EXCEPT !.pc = "done", !.res = res]
\* await page.<op>(...): the operation is issued on the page and the handler
\* is suspended on it
Await(call, op) == [call EXCEPT !.pc = op, !.ops = @ + 1]

\* page = browser_state["page"]; if not page: raise RuntimeError(...)
PageGuard(call, then) ==
    IF browser_state.page = None THEN Raise(call, NotInitialized) ELSE then

\* the page answers only while its browser is up
PageAlive == browserOpen

visit_url(c, u) ==
    /\ calls[c].pc = "idle"
    /\ LET call == Invoked("visit_url", EmptySel, <<>>, FALSE, u) IN
       calls' = [calls EXCEPT ![c] = PageGuard(call, Await(call, "goto"))]
    /\ UNCHANGED <<lifeVars, pageVars, simpVars, tool_result>>

\* page.goto(url) has loaded the document; title = await page.title()
GotoDone(c) ==
    /\ calls[c].pc = "goto"
    /\ PageAlive
    /\ url' = calls[c].url
    /\ dom' = SiteDom(calls[c].url)
    /\ clicked' = {}
    /\ filled' = [i \in 1..Len(SiteDom(calls[c].url)) |-> <<>>]
    /\ calls' = [calls EXCEPT ![c] = Await(@, "title")]
    /\ UNCHANGED <<lifeVars, simpVars, tool_result>>

TitleDone(c) ==
    /\ calls[c].pc = "title"
    /\ PageAlive
    /\ calls' = [calls EXCEPT ![c] = Return(@, Returns("title", <<url>>, <<>>))]
    /\ UNCHANGED <<lifeVars, pageVars, simpVars, tool_result>>

get_page_content(c) ==
    /\ calls[c].pc = "idle"
    /\ LET call == Invoked("get_page_content", EmptySel, <<>>, FALSE, "") IN
       calls' = [calls EXCEPT ![c] = PageGuard(call, Await(call, "content"))]
    /\ UNCHANGED <<lifeVars, pageVars, simpVars, tool_result>>

\* raw_html = await page.content(); return clean_html_content(raw_html)
ContentDone(c) ==
    /\ calls[c].pc = "content"
    /\ PageAlive
    /\ calls' = [calls EXCEPT ![c] =
                    Return(@, Returns("html", <<>>, clean_html_content(SiteHtml(url))))]
    /\ UNCHANGED <<lifeVars, pageVars, simpVars, tool_result>>

\* the entry check on the selector alone
fill_text_NoTextCheck(c, selector, text) ==
    /\ calls[c].pc = "idle"
    /\ LET call == Invoked("fill_text", selector, text, FALSE, "") IN
       calls' = [calls EXCEPT ![c] =
                    PageGuard(call,
                        IF selector = EmptySel
                        THEN Raise(call, Raises("ValueError", "Selector and text must be provided.", <<>>))
                        ELSE Await(call, "fill"))]
    /\ UNCHANGED <<lifeVars, pageVars, simpVars, tool_result>>

fill_text(c, selector, text) ==
    /\ calls[c].pc = "idle"
    /\ LET call == Invoked("fill_text", selector, text, FALSE, "") IN
       calls' = [calls EXCEPT ![c] =
                    PageGuard(call,
                        IF selector = EmptySel \/ text = <<>>
                        THEN Raise(call, Raises("ValueError", "Selector and text must be provided.", <<>>))
                        ELSE Await(call, "fill"))]
    /\ UNCHANGED <<lifeVars, pageVars, simpVars, tool_result>>

\* page.fill: the first match receives the text; no match, or a match that
\* cannot be filled, raises
FillDone(c) ==
    /\ calls[c].pc = "fill"
    /\ PageAlive
    /\ LET i == Resolve(calls[c].sel, dom, 1) IN
       IF i # 0 /\ Fillable(dom[i])
       THEN /\ filled' = [filled EXCEPT ![i] = calls[c].text]
            /\ calls' = [calls EXCEPT ![c] = Return(@, Returns("None", <<>>, <<>>))]
       ELSE /\ calls' = [calls EXCEPT ![c] = Raise(@, EngineError)]
            /\ UNCHANGED filled
    /\ UNCHANGED <<lifeVars, dom, url, clicked, simpVars, tool_result>>

click_element(c, selector) ==
    /\ calls[c].pc = "idle"
    /\ LET call == Invoked("click_element", selector, <<>>, FALSE, "") IN
       calls' = [calls EXCEPT ![c] =
                    PageGuard(call,
                        IF selector = EmptySel
                        THEN Raise(call, Raises("ValueError", "Selector must be provided.", <<>>))
                        ELSE Await(call, "click"))]
    /\ UNCHANGED <<lifeVars, pageVars, simpVars, tool_result>>

ClickDone(c) ==
    /\ calls[c].pc = "click"
    /\ PageAlive
    /\ LET i == Resolve(calls[c].sel, dom, 1) IN
       IF i # 0
       THEN /\ clicked' = clicked \cup {i}
            /\ calls' = [calls EXCEPT ![c] = Return(@, Returns("None", <<>>, <<>>))]
       ELSE /\ calls' = [calls EXCEPT ![c] = Raise(@, EngineError)]
            /\ UNCHANGED clicked
    /\ UNCHANGED <<lifeVars, dom, url, filled, simpVars, tool_result>>

click_by_text(c, text, exact_match) ==
    /\ calls[c].pc = "idle"
    /\ LET call == Invoked("click_by_text", EmptySel, text, exact_match, "") IN
       calls' = [calls EXCEPT ![c] =
                    PageGuard(call,
                        IF text = <<>>
                        THEN Raise(call, Raises("ValueError", "Text must be provided.", <<>>))
                        ELSE Await(call, "evaluate"))]
    /\ UNCHANGED <<lifeVars, pageVars, simpVars, tool_result>>

\* the script has run in the page; result["success"] decides
ClickByTextDone(c) ==
    /\ calls[c].pc = "evaluate"
    /\ calls[c].tool = "click_by_text"
    /\ PageAlive
    /\ LET result == ClickScript(dom, calls[c].text, calls[c].flag) IN
       /\ clicked' = IF result.target # 0 THEN clicked \cup {result.target} ELSE clicked
       /\ calls' = [calls EXCEPT ![c] =
                       IF result.success
                       THEN Return(@, Returns(result.head, result.arg, <<result.element>>))
                       ELSE Raise(@, Raises("RuntimeError", result.head, result.arg))]
    /\ UNCHANGED <<lifeVars, dom, url, filled, simpVars, tool_result>>

get_interactive_elements(c) ==
    /\ calls[c].pc = "idle"
    /\ LET call == Invoked("get_interactive_elements", EmptySel, <<>>, FALSE, "") IN
       calls' = [calls EXCEPT ![c] = PageGuard(call, Await(call, "evaluate"))]
    /\ UNCHANGED <<lifeVars, pageVars, simpVars, tool_result>>

\* return json.dumps(elements, indent=2)
ScanDone(c) ==
    /\ calls[c].pc = "evaluate"
    /\ calls[c].tool = "get_interactive_elements"
    /\ PageAlive
    /\ calls' = [calls EXCEPT ![c] = Return(@, Returns("json", <<>>, ScanScript(dom)))]
    /\ UNCHANGED <<lifeVars, pageVars, simpVars, tool_result>>

\* the awaited page operation raises (closed page, timeout, crashed
\* renderer); the handler re-raises
OpFails(c) ==
    /\ calls[c].pc \in Suspended
    /\ calls' = [calls EXCEPT ![c] = Raise(@, EngineError)]
    /\ UNCHANGED <<lifeVars, pageVars, simpVars, tool_result>>

\* the result has gone back to the caller
Respond(c) ==
    /\ calls[c].pc = "done"
    /\ calls' = [calls EXCEPT ![c] = IdleCall]
    /\ UNCHANGED <<lifeVars, pageVars, simpVars, tool_result>>

----------------------------------------------------------------------------
(* The client wrapper (dynamic_tool_func): it awaits session.call_tool and   *)
(* hands a text to the agent loop.                                           *)

Text(prefix, body) == [prefix |-> prefix, body |-> body]

\* nothing handed to the agent loop yet
NoOutput == [isError |-> FALSE, content |-> <<>>, output |-> Text("", "")]

\* what session.call_tool returns for a finished handler: a raise comes back
\* as an error result whose one text item names the failure, a returned
\* string as one text item, and a returned None as no item at all
CallToolResult(res) ==
    IF res.exc # ""
    THEN [isError |-> TRUE, content |-> <<Text("Error executing tool", res.exc)>>]
    ELSE IF res.head = "None"
    THEN [isError |-> FALSE, content |-> <<>>]
    ELSE [isError |-> FALSE, content |-> <<Text("", res.head)>>]

\* output = result.content[0].text; an exception (here the IndexError of an
\* empty content list) is caught and rendered as text
WrapperOutput(result) ==
    IF result.content = <<>>
    THEN Text("Error executing tool", "list index out of range")
    ELSE result.content[1]

\* the awaited call_tool answers and the wrapper returns its text
dynamic_tool_func(c) ==
    /\ calls[c].pc = "done"
    /\ LET result == CallToolResult(calls[c].res) IN
       tool_result' = [isError |-> result.isError, content |-> result.content,
                       output |-> WrapperOutput(result)]
    /\ calls' = [calls EXCEPT ![c] = IdleCall]
    /\ UNCHANGED <<lifeVars, pageVars, simpVars>>

----------------------------------------------------------------------------
(* The server: lifespan and handlers, with the arguments callers send *)

SimplifierOff ==
    /\ raw_html = <<>>
    /\ cleaned = <<>>
    /\ cleaned2 = <<>>
    /\ spc = "off"
    /\ tool_result = NoOutput

Init ==
    /\ phase = "not_started"
    /\ browser_state = [playwright |-> None, browser |-> None, page |-> None]
    /\ pwRunning = FALSE
    /\ browserOpen = FALSE
    /\ closeCalled = FALSE
    /\ stopCalled = FALSE
    /\ calls = [c \in Slots |-> IdleCall]
    /\ dom = <<>>
    /\ url = Blank
    /\ clicked = {}
    /\ filled = <<>>
    /\ SimplifierOff

Selectors == {EmptySel, Sel("", "box"), Sel("", "none")}
FillTexts == {<<>>, <<"a">>}
ClickTexts == {<<>>, OkLower, <<"q">>}

Lifespan ==
    \/ \E ok \in BOOLEAN : LifespanStartPlaywright(ok)
    \/ \E ok \in BOOLEAN : LifespanLaunch(ok)
    \/ \E ok \in BOOLEAN : LifespanNewPage(ok)
    \/ LifespanExit
    \/ \E ok \in BOOLEAN, stillOpen \in BOOLEAN : LifespanCloseBrowser(ok, stillOpen)
    \/ \E ok \in BOOLEAN : LifespanStopPlaywright(ok)

Handlers(c) ==
    \/ \E u \in Urls : visit_url(c, u)
    \/ GotoDone(c)
    \/ TitleDone(c)
    \/ get_page_content(c)
    \/ ContentDone(c)
    \/ \E sel \in Selectors, text \in FillTexts : fill_text(c, sel, text)
    \/ FillDone(c)
    \/ \E sel \in Selectors : click_element(c, sel)
    \/ ClickDone(c)
    \/ \E text \in ClickTexts, exact \in BOOLEAN : click_by_text(c, text, exact)
    \/ ClickByTextDone(c)
    \/ get_interactive_elements(c)
    \/ ScanDone(c)
    \/ OpFails(c)
    \/ Respond(c)

Next ==
    \/ Lifespan
    \/ \E c \in Slots : Handlers(c)

Spec == Init /\ [][Next]_vars

----------------------------------------------------------------------------
(* The session as the client of this repository drives it: initialised, some *)
(* page loaded, and one tool call at a time (tool_executor awaits each call  *)
(* before it issues the next).                                               *)

Loaded == "site"

SearchTexts == {<<>>, Ok, OkLower, <<"z">>, <<"k", " ">>, <<"q">>}

InitSerial ==
    /\ phase = "serving"
    /\ browser_state = [playwright |-> Handle, browser |-> Handle, page |-> Handle]
    /\ pwRunning = TRUE
    /\ browserOpen = TRUE
    /\ closeCalled = FALSE
    /\ stopCalled = FALSE
    /\ calls = [c \in Slots |-> IdleCall]
    /\ dom \in Pages(MaxElems)
    /\ url = Loaded
    /\ clicked = {}
    /\ filled = [i \in 1..Len(dom) |-> <<>>]
    /\ SimplifierOff

NextSerial ==
    \/ \E u \in Urls : visit_url(1, u)
    \/ GotoDone(1)
    \/ TitleDone(1)
    \/ get_page_content(1)
    \/ ContentDone(1)
    \/ \E sel \in Selectors, text \in FillTexts : fill_text(1, sel, text)
    \/ FillDone(1)
    \/ \E sel \in Selectors : click_element(1, sel)
    \/ ClickDone(1)
    \/ \E text \in SearchTexts, exact \in BOOLEAN : click_by_text(1, text, exact)
    \/ ClickByTextDone(1)
    \/ get_interactive_elements(1)
    \/ ScanDone(1)
    \/ OpFails(1)
    \/ dynamic_tool_func(1)

SpecSerial == InitSerial /\ [][NextSerial]_vars

----------------------------------------------------------------------------
(* clean_html_content applied to any markup, and to its own output *)

Alphabet == {Chr("a"), Chr(" "), DivTag, Close("div"), ScriptTag, Close("script"),
             MetaTag, SvgTag, PreTag}

Markups(n) == UNION {[1..k -> Alphabet] : k \in 0..n}

InitSimplify ==
    /\ phase = "not_started"
    /\ browser_state = [playwright |-> None, browser |-> None, page |-> None]
    /\ pwRunning = FALSE
    /\ browserOpen = FALSE
    /\ closeCalled = FALSE
    /\ stopCalled = FALSE
    /\ calls = [c \in Slots |-> IdleCall]
    /\ dom = <<>>
    /\ url = Blank
    /\ clicked = {}
    /\ filled = <<>>
    /\ raw_html \in Markups(MaxMarkup)
    /\ cleaned = <<>>
    /\ cleaned2 = <<>>
    /\ spc = "raw"
    /\ tool_result = NoOutput

Simplify ==
    /\ spc = "raw"
    /\ cleaned' = clean_html_content(raw_html)
    /\ spc' = "once"
    /\ UNCHANGED <<lifeVars, calls, pageVars, raw_html, cleaned2, tool_result>>

SimplifyAgain ==
    /\ spc = "once"
    /\ cleaned2' = clean_html_content(cleaned)
    /\ spc' = "twice"
    /\ UNCHANGED <<lifeVars, calls, pageVars, raw_html, cleaned, tool_result>>

NextSimplify == Simplify \/ SimplifyAgain

SpecSimplify == InitSimplify /\ [][NextSimplify]_vars

----------------------------------------------------------------------------
(* Properties *)

\* C1: a primitive invoked while the session is not ready (before
\* initialize() has completed, or after teardown() has closed the session)
\* fails with the not-initialised error and issues no operation on the page.
C1_NotReadyFailsUntouched ==
    \A c \in Slots :
        (calls[c].pc # "idle" /\ calls[c].session # "ready")
            => /\ calls[c].pc = "done"
               /\ calls[c].res = NotInitialized
               /\ calls[c].ops = 0

\* C2: when the lifespan has ended, on any path, each half of the pair that
\* was brought up has had its release called: the browser closed and the
\* Playwright driver stopped, whatever became of the other half.
C2_BothHalvesReleased ==
    phase \in {"done", "failed"}
        => /\ pwRunning => stopCalled
           /\ browserOpen => closeCalled

\* C3: at most one handler is suspended on a page operation at any time.
C3_OneInFlight ==
    Cardinality({c \in Slots : calls[c].pc \in Suspended}) <= 1

\* some visible candidate of the locator matches the text
C4_HasMatch(d, text, exactMatch) ==
    \E i \in 1..Len(d) :
        LocatorQuery(d[i]) /\ LocatorVisible(d[i]) /\ TextMatches(d[i], text, exactMatch)

\* C4: when click_by_text finishes on a page with no visible candidate
\* matching the text, it has raised, the page is as it was (nothing clicked),
\* and unless the engine itself failed the error is the not-found error
\* carrying the search text.
C4_NoMatchRaisesNotFound ==
    [][\A c \in Slots :
        (/\ calls[c].tool = "click_by_text"
         /\ calls[c].pc = "evaluate"
         /\ calls'[c].pc = "done"
         /\ ~ C4_HasMatch(dom, calls[c].text, calls[c].flag))
            => /\ calls'[c].res.exc # ""
               /\ UNCHANGED pageVars
               /\ calls'[c].res # EngineError
                    => calls'[c].res = Raises("RuntimeError", "No element found with text",
                                              calls[c].text)]_vars

\* a not-found error on a page that has visible candidates, none clicked
C4_Witness ==
    /\ calls[1].tool = "click_by_text"
    /\ calls[1].pc = "done"
    /\ calls[1].res = Raises("RuntimeError", "No element found with text", calls[1].text)
    /\ \E i \in 1..Len(dom) : LocatorQuery(dom[i]) /\ LocatorVisible(dom[i])
    /\ clicked = {}

\* the comparable text of the claim: inner text, else value, else aria-label
C5_Comparable(el) ==
    Trim(IF el.innerText # <<>> THEN el.innerText
         ELSE IF el.value # <<>> THEN el.value
         ELSE el.ariaLabel)

C5_Contains(s, t) ==
    \E j \in 1..(Len(s) - Len(t) + 1) : SubSeq(s, j, j + Len(t) - 1) = t

C5_Matches(el, text, exactMatch) ==
    /\ LocatorQuery(el)
    /\ LocatorVisible(el)
    /\ IF exactMatch
       THEN C5_Comparable(el) = text
       ELSE C5_Contains(ToLowerCase(C5_Comparable(el)), ToLowerCase(text))

C5_IsFirstMatch(d, i, text, exactMatch) ==
    /\ C5_Matches(d[i], text, exactMatch)
    /\ \A j \in 1..(i - 1) : ~ C5_Matches(d[j], text, exactMatch)

\* C5: when click_by_text returns, exactly one element received the click:
\* the first visible candidate in document order whose comparable text
\* equals the text (exact, case-sensitive) or contains it without regard to
\* case (otherwise); and the element reported is that one.
C5_ClicksFirstMatch ==
    [][\A c \in Slots :
        (/\ calls[c].tool = "click_by_text"
         /\ calls[c].pc = "evaluate"
         /\ calls'[c].pc = "done"
         /\ calls'[c].res.exc = "")
            => \E i \in 1..Len(dom) :
                /\ C5_IsFirstMatch(dom, i, calls[c].text, calls[c].flag)
                /\ clicked' = clicked \cup {i}
                /\ UNCHANGED <<dom, url, filled>>
                /\ calls'[c].res.head = "Clicked"
                /\ calls'[c].res.value[1].tag = dom[i].tag
                /\ calls'[c].res.value[1].id = dom[i].id
                /\ calls'[c].res.value[1].className = dom[i].className
                /\ calls'[c].res.arg = calls'[c].res.value[1].text]_vars

\* the first of two matching candidates was clicked and the second was not
C5_Witness ==
    /\ calls[1].tool = "click_by_text"
    /\ calls[1].pc = "done"
    /\ calls[1].res.exc = ""
    /\ Len(dom) = 2
    /\ clicked = {1}
    /\ C5_Matches(dom[2], calls[1].text, calls[1].flag)

C6_EmptyRequired(call) ==
    \/ call.tool = "fill_text" /\ (call.sel = EmptySel \/ call.text = <<>>)
    \/ call.tool = "click_element" /\ call.sel = EmptySel
    \/ call.tool = "click_by_text" /\ call.text = <<>>

\* C6: on a ready session a call with an empty required string argument
\* raises ValueError on entry: no operation is issued on the page and the
\* page is as it was.
C6_EmptyArgumentRejected ==
    [][\A c \in Slots :
        (/\ calls[c].pc = "idle"
         /\ calls'[c].pc # "idle"
         /\ calls'[c].session = "ready"
         /\ C6_EmptyRequired(calls'[c]))
            => /\ calls'[c].pc = "done"
               /\ calls'[c].res.exc = "ValueError"
               /\ calls'[c].ops = 0
               /\ UNCHANGED pageVars]_vars

\* fill_text("#box", "") was rejected
C6_Witness ==
    /\ calls[1].tool = "fill_text"
    /\ calls[1].pc = "done"
    /\ calls[1].sel # EmptySel
    /\ calls[1].text = <<>>
    /\ calls[1].res.exc = "ValueError"
    /\ calls[1].ops = 0

C7_AllowList == {"id", "class", "name", "href", "type", "placeholder", "aria-label", "role"}
C7_NonContent == {"script", "style", "svg", "meta", "link", "noscript"}

\* the start tags of the input that the parser takes as elements, in
\* document order (a start tag inside script or style is text)
RECURSIVE C7_TagTokens(_, _)
C7_TagTokens(t, i) ==
    IF i > Len(t) THEN <<>>
    ELSE IF t[i].k = "open"
         THEN <<t[i]>> \o C7_TagTokens(t, IF t[i].tag \in CDataTags
                                          THEN CDataEnd(t, i + 1, t[i].tag) + 1
                                          ELSE i + 1)
         ELSE C7_TagTokens(t, i + 1)

\* for each element of the tree in document order: is it outside every
\* non-content subtree
RECURSIVE C7_Survives(_, _)
C7_Survives(kids, under) ==
    IF kids = <<>> THEN <<>>
    ELSE LET n == Head(kids) IN
         (IF n.k = "tag"
          THEN <<~ under /\ n.tag \notin C7_NonContent>>
               \o C7_Survives(n.kids, under \/ n.tag \in C7_NonContent)
          ELSE <<>>)
         \o C7_Survives(Tail(kids), under)

\* the value of a retained attribute: as written, or (normalised) a class
\* value as its tokens joined by single spaces
C7_Value(a, normalised) ==
    IF normalised /\ a.name = "class" THEN Trim(CollapseSpace(a.value)) ELSE a.value

C7_KeptAttrs(attrs, normalised) ==
    LET idx == SelectSeq([i \in 1..Len(attrs) |-> i],
                         LAMBDA i : attrs[i].name \in C7_AllowList)
    IN [n \in 1..Len(idx) |-> Attr(attrs[idx[n]].name, C7_Value(attrs[idx[n]], normalised))]

\* the surviving elements with their allow-listed attributes
C7_Expected(html, normalised) ==
    LET toks == C7_TagTokens(html, 1)
        flags == C7_Survives(BeautifulSoup(html), FALSE)
        idx == SelectSeq([i \in 1..Len(toks) |-> i], LAMBDA i : flags[i])
    IN [n \in 1..Len(idx) |->
            Open(toks[idx[n]].tag, C7_KeptAttrs(toks[idx[n]].attrs, normalised))]

C7_OutputTags == SelectSeq(cleaned, LAMBDA x : x.k = "open")

C7_OutputClean ==
    \A i \in 1..Len(cleaned) :
        cleaned[i].k # "chr"
            => /\ cleaned[i].tag \notin C7_NonContent
               /\ \A n \in 1..Len(cleaned[i].attrs) : cleaned[i].attrs[n].name \in C7_AllowList

\* C7 as claimed: the output has no script, style, svg, meta, link or noscript
\* element and no attribute outside the allow-list, and its elements are the
\* surviving elements of the input with the retained attribute values
\* unchanged.
C7_RetainedValuesUnchanged ==
    spc # "raw"
        => /\ C7_OutputClean
           /\ C7_OutputTags = C7_Expected(raw_html, FALSE)

\* C7 as amended: as above, except that the value of a retained class
\* attribute is rewritten as its white-space separated tokens joined by
\* single spaces.
C7_RetainedValuesNormalised ==
    spc # "raw"
        => /\ C7_OutputClean
           /\ C7_OutputTags = C7_Expected(raw_html, TRUE)

\* a div that holds an svg that holds a script: only the div is left, with
\* its class and without its onclick
C7_Witness ==
    /\ spc = "once"
    /\ Len(raw_html) >= 3
    /\ raw_html[1] = DivTag
    /\ raw_html[2] = SvgTag
    /\ raw_html[3] = ScriptTag
    /\ C7_OutputTags = <<Open("div", <<Attr("class", <<"a", " ", "a">>)>>)>>

\* C8: simplifying simplified markup gives the same markup.
C8_Idempotent == spc = "twice" => cleaned2 = cleaned

\* a second run over output that holds an element with text in it and that
\* differs from the input
C8_Witness ==
    /\ spc = "twice"
    /\ cleaned # raw_html
    /\ \E i \in 1..Len(cleaned) : cleaned[i].k = "open"
    /\ \E i \in 1..Len(cleaned) : cleaned[i] = Chr("a")
    /\ \E i \in 1..Len(raw_html) : raw_html[i].tag \in C7_NonContent

\* the visibility predicate of the claim: positive width and height, not
\* hidden, not display:none
C9_Visible(el) ==
    /\ el.w > 0
    /\ el.h > 0
    /\ el.visibility # "hidden"
    /\ el.display # "none"

C9_Qualifies(el) ==
    /\ ScannerQuery(el)
    /\ C9_Visible(el)
    /\ (ScannerName(el) # <<>> \/ el.tag \in {"input", "select", "textarea"})

C9_Expected(d) ==
    LET q == SelectSeq(d, C9_Qualifies) IN [n \in 1..Len(q) |-> Descriptor(q[n])]

\* C9: get_interactive_elements returns, in document order, one descriptor
\* for exactly the candidates that are visible (positive width and height,
\* not hidden, not display:none) and named or form controls; an empty list,
\* not an error, when there is none.
C9_ExactlyTheVisibleCandidates ==
    \A c \in Slots :
        (/\ calls[c].tool = "get_interactive_elements"
         /\ calls[c].pc = "done"
         /\ calls[c].res # EngineError)
            => /\ calls[c].res.exc = ""
               /\ calls[c].res.value = C9_Expected(dom)

C10_LocatorConsiders(el) == LocatorQuery(el) /\ LocatorVisible(el)
C10_ScannerConsiders(el) == ScannerQuery(el) /\ ScannerVisible(el)

C11_IsErrorText(text) == text.prefix = "Error executing tool"

\* C11: the text the wrapper hands to the agent loop is an error text if and
\* only if the server-side operation failed.
C11_ErrorTextIffFailed ==
    tool_result # NoOutput
        => (C11_IsErrorText(tool_result.output) <=> tool_result.isError)

====
